---- MODULE Spec2Model ----
(***************************************************************************)
(* Model of streamlit_app.py: a Streamlit script that loads two remote     *)
(* CSV time series through memoized loaders (with a synthetic fallback),   *)
(* builds a synthetic emission table, reads a year-range slider and        *)
(* filters the three tables by that range.  Every user interaction re-runs *)
(* the whole script in the same process.                                   *)
(*                                                                         *)
(* Numbers that are floats in the program are fixed-point integers here,   *)
(* in units of 1/Unit.  Years are plain integers.                          *)
(***************************************************************************)
EXTENDS Integers, Sequences, FiniteSets, TLC

VARIABLES
    pc,             \* position of the running script
    runs,           \* number of script runs started in this process
    now,            \* datetime.now().year
    rng,            \* position in numpy's process-wide random stream
    temp_cache,     \* st.cache_data entry of load_global_temp ({} = absent)
    sea_cache,      \* st.cache_data entry of load_sea_level   ({} = absent)
    temp_info,      \* bookkeeping of load_global_temp's body: runs, warnings, path, input
    sea_info,       \* bookkeeping of load_sea_level's body
    temp_df, sea_df, emission_df,
    draws,          \* the Gaussian draws of the last emission build
    year_min, year_max,
    slider,         \* widget state of the year-range slider (session state)
    year_range,     \* value returned by st.sidebar.slider in this run
    filtered_temp, filtered_sea, filtered_emission,
    csv,            \* bytes handed to the download button
    first_tables,   \* history: the three tables as built by the first run
    call            \* the loader call under test (loader specification only)

vars == <<pc, runs, now, rng, temp_cache, sea_cache, temp_info, sea_info,
          temp_df, sea_df, emission_df, draws, year_min, year_max, slider,
          year_range, filtered_temp, filtered_sea, filtered_emission, csv,
          first_tables, call>>

----------------------------------------------------------------------------
(* Bounds of the model *)

MaxRuns == 2          \* script runs per process
MaxRows == 2          \* data rows of a fetched file, running application
MaxSeaRows == 3       \* data rows of a fetched sea-level file, loader on its own
RngPeriod == 4        \* period of the modelled random stream
Spread == 7           \* largest modelled deviation, in standard deviations
FirstNow == 2025      \* the process runs in calendar year FirstNow or the next

(* Program constants *)

SpanStart == 1990     \* np.arange(1990, 2023)
SpanStop == 2023
DefaultLo == 1990     \* slider value=(1990, 2020)
DefaultHi == 2020

----------------------------------------------------------------------------
(* Generic helpers *)

RECURSIVE Fact(_)
Fact(n) == IF n <= 1 THEN 1 ELSE n * Fact(n - 1)

SpanLen == SpanStop - SpanStart

\* One fixed-point unit is 1/Unit.  Unit is a multiple of 10 (decimal
\* constants with one digit), of SpanLen-1 (linspace step) and of every
\* possible group size (means are exact).
Unit == 10 * (SpanLen - 1) * Fact(MaxRows) * Fact(MaxSeaRows)

\* a decimal literal given in tenths, as a fixed-point number
Dec(tenths) == tenths * (Unit \div 10)

\* cells: a numeric cell or a string that is not a number
Num(n) == [num |-> TRUE, n |-> n]
Str(n) == [num |-> FALSE, n |-> n]

TheOne(S) == CHOOSE x \in S : TRUE

RECURSIVE SumSeq(_)
SumSeq(s) == IF s = <<>> THEN 0 ELSE Head(s) + SumSeq(Tail(s))

RECURSIVE SortedSeq(_)
SortedSeq(S) ==
    IF S = {} THEN <<>>
    ELSE LET m == CHOOSE x \in S : \A y \in S : x <= y
         IN <<m>> \o SortedSeq(S \ {m})

\* df[mask]: boolean indexing keeps the rows whose mask is TRUE, in order
RECURSIVE BoolIndex(_, _)
BoolIndex(T, mask) ==
    IF T = <<>> THEN <<>>
    ELSE (IF Head(mask) THEN <<Head(T)>> ELSE <<>>)
         \o BoolIndex(Tail(T), Tail(mask))

\* variant: the stop value is included
ArangeInclusive(start, stop) == [i \in 1..(stop - start + 1) |-> start + i - 1]

\* np.arange(start, stop)
Arange(start, stop) == [i \in 1..(stop - start) |-> start + i - 1]

\* np.linspace(start, stop, num), endpoints included
Linspace(start, stop, num) ==
    [i \in 1..num |->
        IF num = 1 THEN start
        ELSE start + ((i - 1) * (stop - start)) \div (num - 1)]

\* the k-th standard-normal variate of the random stream, in whole
\* standard deviations, spread over -Spread..Spread
Variate(k) == (((k % RngPeriod) * 2 * Spread) \div (RngPeriod - 1)) - Spread

\* np.random.normal(loc, scale, size) drawn at stream position r
Normal(loc, scale, size, r) == [i \in 1..size |-> loc + scale * Variate(r + i - 1)]

\* the stream position after drawing size variates
Advance(r, size) == (r + size) % RngPeriod

----------------------------------------------------------------------------
(* The remote resources *)

\* a fetch that fails (network error, non-2xx response)
NetFail == [ok |-> FALSE, cols |-> {}, rows |-> <<>>]

SeqsUpTo(S, n) == UNION {[1..k -> S] : k \in 0..n}

\* timestamps are counted in months: year * 12 + (month - 1)
Stamp(year, month) == year * 12 + (month - 1)

\* rows of a fetched file: up to k rows, each drawn from rows; a file
\* that lacks a column is modelled with at most one row
Files(colnames, rows, k) ==
    {NetFail}
    \cup [ok : {TRUE}, cols : {colnames}, rows : SeqsUpTo(rows, k)]
    \cup [ok : {TRUE}, cols : (SUBSET colnames) \ {colnames}, rows : SeqsUpTo(rows, 1)]

\* GLB.Ts+dSST.csv after its first line: columns Year and J-D, cells that
\* parse as numbers or do not ("***")
TempRows(n) ==
    [Year : {Num(1989), Num(n), Num(n + 1)}, JD : {Num(5)}]
    \cup {[Year |-> Str(0), JD |-> Num(5)], [Year |-> Num(n), JD |-> Str(0)]}

TempFiles(n) == Files({"Year", "J-D"}, TempRows(n), MaxRows)

\* csiro_recons_gmsl_mo_2015.csv: columns Time and GMSL
SeaRows(n, vals) ==
    [Time : {Num(Stamp(2000, 1)), Num(Stamp(2000, 6)), Num(Stamp(2001, 1)),
             Num(Stamp(n + 1, 1))},
     GMSL : {Num(v) : v \in vals}]
    \cup {[Time |-> Str(0), GMSL |-> Num(5)],
          [Time |-> Num(Stamp(2000, 1)), GMSL |-> Str(0)]}

\* the files the running application is exercised with
SeaFiles(n) == Files({"Time", "GMSL"}, SeaRows(n, {5}), MaxRows)

\* the files load_sea_level is exercised with on its own
SeaFilesWide(n) == Files({"Time", "GMSL"}, SeaRows(n, {5, 7, 9}), MaxSeaRows)

----------------------------------------------------------------------------
(* pandas pieces used by the loaders *)

\* read_csv infers one dtype per column: a column with a cell that is not
\* a number is a column of strings, otherwise its cells are parsed
ReadColumn(cells) ==
    IF \A i \in 1..Len(cells) : cells[i].num
    THEN [i \in 1..Len(cells) |-> Num(cells[i].n * Unit)]
    ELSE [i \in 1..Len(cells) |-> Str(cells[i].n)]

\* the year column is read as integers when every cell is a number
ReadYears(cells) ==
    IF \A i \in 1..Len(cells) : cells[i].num
    THEN [i \in 1..Len(cells) |-> Num(cells[i].n)]
    ELSE [i \in 1..Len(cells) |-> Str(cells[i].n)]

IsNumeric(col) == \A i \in 1..Len(col) : col[i].num

\* pd.to_datetime(...).dt.year
YearOf(stamp) == stamp \div 12

\* variant: the groups are summed, not averaged
GroupBySum(dates, values) ==
    LET keys == SortedSeq({dates[i] : i \in 1..Len(dates)})
        grp(k) == BoolIndex(values, [i \in 1..Len(dates) |-> dates[i] = k])
    IN [j \in 1..Len(keys) |->
            [date |-> keys[j], value |-> Num(SumSeq(grp(keys[j])))]]

\* df.groupby("date")["value"].mean().reset_index(): one row per distinct
\* key, keys ascending, value the mean of the group's values
GroupByMean(dates, values) ==
    LET keys == SortedSeq({dates[i] : i \in 1..Len(dates)})
        grp(k) == BoolIndex(values, [i \in 1..Len(dates) |-> dates[i] = k])
    IN [j \in 1..Len(keys) |->
            [date |-> keys[j],
             value |-> Num(SumSeq(grp(keys[j])) \div Len(grp(keys[j])))]]

\* variant: the current year is cut off as well
UpToYearStrict(T, n) == BoolIndex(T, [i \in 1..Len(T) |-> T[i].date < n])

\* df[df["date"] <= datetime.now().year]
UpToYear(T, n) == BoolIndex(T, [i \in 1..Len(T) |-> T[i].date <= n])

----------------------------------------------------------------------------
(* Synthetic Data Generator: the except branch of the loaders *)

Fallback(lo, hi, sigma, r) ==
    LET years == Arange(SpanStart, SpanStop)
        values == [i \in 1..Len(years) |->
                     Linspace(lo, hi, Len(years))[i]
                     + Normal(0, sigma, Len(years), r)[i]]
    IN [i \in 1..Len(years) |-> [date |-> years[i], value |-> Num(values[i])]]

----------------------------------------------------------------------------
(* load_global_temp: the body behind @st.cache_data *)

\* TRUE when the try block raises
TempRaises(f) ==
    \/ ~f.ok                                          \* read_csv raises
    \/ ~({"Year", "J-D"} \subseteq f.cols)            \* KeyError on df[["date", "J-D"]]
    \/ ~IsNumeric([i \in 1..Len(f.rows) |-> f.rows[i].Year])   \* str <= int raises

TempTry(f, n) ==
    LET dates == ReadYears([i \in 1..Len(f.rows) |-> f.rows[i].Year])
        vals == ReadColumn([i \in 1..Len(f.rows) |-> f.rows[i].JD])
        df == [i \in 1..Len(f.rows) |-> [date |-> dates[i].n, value |-> vals[i]]]
    IN UpToYear(df, n)

\* result: the returned table, whether a warning was emitted, the stream
\* position afterwards
load_global_temp(f, n, r) ==
    IF TempRaises(f)
    THEN [table |-> Fallback(Dec(2), Dec(12), Dec(1), r), warned |-> 1,
          path |-> "fallback", rng |-> Advance(r, SpanLen)]
    ELSE [table |-> TempTry(f, n), warned |-> 0, path |-> "fetched", rng |-> r]

----------------------------------------------------------------------------
(* load_sea_level: the body behind @st.cache_data *)

\* TRUE when the try block raises; mean() of an empty column of strings
\* (a file with a header and no rows) raises or not depending on the
\* pandas build, which emptyRaises decides
SeaRaises(f, emptyRaises) ==
    \/ ~f.ok
    \/ ~({"Time", "GMSL"} \subseteq f.cols)
    \/ ~IsNumeric([i \in 1..Len(f.rows) |-> f.rows[i].Time])   \* to_datetime raises
    \/ ~IsNumeric([i \in 1..Len(f.rows) |-> f.rows[i].GMSL])   \* mean() raises
    \/ (f.rows = <<>> /\ emptyRaises)

SeaTry(f, n) ==
    LET dates == [i \in 1..Len(f.rows) |-> YearOf(f.rows[i].Time.n)]
        vals == ReadColumn([i \in 1..Len(f.rows) |-> f.rows[i].GMSL])
    IN UpToYear(GroupByMean(dates, [i \in 1..Len(vals) |-> vals[i].n]), n)

load_sea_level(f, n, r, emptyRaises) ==
    IF SeaRaises(f, emptyRaises)
    THEN [table |-> Fallback(Dec(0), Dec(1000), Dec(50), r), warned |-> 1,
          path |-> "fallback", rng |-> Advance(r, SpanLen)]
    ELSE [table |-> SeaTry(f, n), warned |-> 0, path |-> "fetched", rng |-> r]

----------------------------------------------------------------------------
(* Emission Series Builder: lines 77-86 *)

\* variant: co2 is derived from the gross series
EmissionBuildFromGross(r) ==
    LET years == Arange(SpanStart, SpanStop)
        n == Len(years)
        noiseG == Normal(0, Dec(200), n, r)
        noiseA == Normal(Dec(300), Dec(50), n, Advance(r, n))
        noiseB == Normal(Dec(200), Dec(50), n, Advance(Advance(r, n), n))
        total_emission == [i \in 1..n |-> Linspace(Dec(3000), Dec(7500), n)[i] + noiseG[i]]
        net_emission == [i \in 1..n |-> total_emission[i] - noiseA[i]]
        co2_emission == [i \in 1..n |-> total_emission[i] - noiseB[i]]
    IN [table |-> [i \in 1..n |-> [date |-> years[i], gross |-> total_emission[i],
                                   net |-> net_emission[i], co2 |-> co2_emission[i]]],
        noiseA |-> noiseA, noiseB |-> noiseB,
        rng |-> Advance(Advance(Advance(r, n), n), n)]

EmissionBuild(r) ==
    LET years == Arange(SpanStart, SpanStop)
        n == Len(years)
        noiseG == Normal(0, Dec(200), n, r)
        noiseA == Normal(Dec(300), Dec(50), n, Advance(r, n))
        noiseB == Normal(Dec(200), Dec(50), n, Advance(Advance(r, n), n))
        total_emission == [i \in 1..n |-> Linspace(Dec(3000), Dec(7500), n)[i] + noiseG[i]]
        net_emission == [i \in 1..n |-> total_emission[i] - noiseA[i]]
        co2_emission == [i \in 1..n |-> net_emission[i] - noiseB[i]]
    IN [table |-> [i \in 1..n |-> [date |-> years[i], gross |-> total_emission[i],
                                   net |-> net_emission[i], co2 |-> co2_emission[i]]],
        noiseA |-> noiseA, noiseB |-> noiseB,
        rng |-> Advance(Advance(Advance(r, n), n), n)]

----------------------------------------------------------------------------
(* Year bounds and slider: lines 94-102 *)

\* Series.min() / Series.max() of the date column; {} stands for NaN (empty column)
DateMin(T) == IF T = <<>> THEN {}
              ELSE {CHOOSE m \in {T[i].date : i \in 1..Len(T)} :
                        \A i \in 1..Len(T) : m <= T[i].date}
DateMax(T) == IF T = <<>> THEN {}
              ELSE {CHOOSE m \in {T[i].date : i \in 1..Len(T)} :
                        \A i \in 1..Len(T) : m >= T[i].date}

\* Python's min(a, b, c) / max(a, b, c): keep the first argument unless a
\* later one compares strictly smaller / larger; comparisons with NaN are false
Less(x, y) == x # {} /\ y # {} /\ TheOne(x) < TheOne(y)
\* variant: the third argument is left out
PyMinOfTwo(a, b, c) == IF Less(b, a) THEN b ELSE a

PyMin(a, b, c) ==
    LET m == IF Less(b, a) THEN b ELSE a
    IN IF Less(c, m) THEN c ELSE m
PyMax(a, b, c) ==
    LET m == IF Less(a, b) THEN b ELSE a
    IN IF Less(m, c) THEN c ELSE m

Default == <<DefaultLo, DefaultHi>>

\* the value st.sidebar.slider returns: the widget's stored value, or the
\* default when the widget is new (first run, or min/max changed)
SliderValue(state, lo, hi) ==
    IF state # {} /\ TheOne(state).min = lo /\ TheOne(state).max = hi
    THEN TheOne(state).value
    ELSE Default

\* positions of the slider a user picks from
SliderStops(lo, hi) == {lo, 2001, DefaultHi, hi}

----------------------------------------------------------------------------
(* Range Filter: lines 110, 116, 134-136 *)

\* variant: the lower bound is exclusive
RangeFilterOpen(T, range) ==
    BoolIndex(T, [i \in 1..Len(T) |-> T[i].date > range[1] /\ T[i].date <= range[2]])

RangeFilter(T, range) ==
    BoolIndex(T, [i \in 1..Len(T) |-> T[i].date >= range[1] /\ T[i].date <= range[2]])

\* filtered_emission.to_csv(index=False).encode("utf-8-sig")
ToCsv(T) ==
    [bom |-> TRUE, header |-> <<"date", "gross", "net", "CO2">>,
     lines |-> [i \in 1..Len(T) |-> <<T[i].date, T[i].gross, T[i].net, T[i].co2>>]]

NoCsv == [bom |-> FALSE, header |-> <<>>, lines |-> <<>>]

----------------------------------------------------------------------------
(* The script *)

NoInfo == [runs |-> 0, warnings |-> 0, path |-> "none"]
NoCall == [loader |-> "none"]
Unset == <<0, 0>>

Nows == {FirstNow, FirstNow + 1}

Fresh ==
    /\ temp_df = <<>> /\ sea_df = <<>> /\ emission_df = <<>>
    /\ draws = [noiseA |-> <<>>, noiseB |-> <<>>]
    /\ year_min = 0 /\ year_max = 0
    /\ year_range = Unset
    /\ filtered_temp = <<>> /\ filtered_sea = <<>> /\ filtered_emission = <<>>
    /\ csv = NoCsv

Init ==
    /\ pc = "load_temp"
    /\ runs = 1
    /\ now \in Nows
    /\ rng \in 0..(RngPeriod - 1)
    /\ temp_cache = {} /\ sea_cache = {}
    /\ temp_info = NoInfo /\ sea_info = NoInfo
    /\ slider = {}
    /\ first_tables = {}
    /\ call = NoCall
    /\ Fresh

\* variant: the loaders are not memoized
CacheNeverHits(cache) == FALSE

\* st.cache_data: a stored entry is returned without running the body
CacheHit(cache) == cache # {}

\* one execution of load_global_temp's body on the response f; the result
\* is stored in the cache
RunTemp(f) ==
    LET res == load_global_temp(f, now, rng)
    IN /\ temp_df' = res.table
       /\ temp_cache' = {res.table}
       /\ temp_info' = [runs |-> temp_info.runs + 1,
                        warnings |-> temp_info.warnings + res.warned,
                        path |-> res.path]
       /\ rng' = res.rng

\* line 73: temp_df = load_global_temp()
LoadTemp ==
    /\ pc = "load_temp"
    /\ IF CacheHit(temp_cache)
       THEN /\ temp_df' = TheOne(temp_cache)
            /\ UNCHANGED <<temp_cache, temp_info, rng>>
       ELSE \E f \in TempFiles(now) : RunTemp(f)
    /\ pc' = "load_sea"
    /\ UNCHANGED <<runs, now, sea_cache, sea_info, sea_df, emission_df, draws,
                   year_min, year_max, slider, year_range, filtered_temp,
                   filtered_sea, filtered_emission, csv, first_tables, call>>

\* one execution of load_sea_level's body on the response f
RunSea(f, emptyRaises) ==
    LET res == load_sea_level(f, now, rng, emptyRaises)
    IN /\ sea_df' = res.table
       /\ sea_cache' = {res.table}
       /\ sea_info' = [runs |-> sea_info.runs + 1,
                       warnings |-> sea_info.warnings + res.warned,
                       path |-> res.path]
       /\ rng' = res.rng

\* line 74: sea_df = load_sea_level()
LoadSea ==
    /\ pc = "load_sea"
    /\ IF CacheHit(sea_cache)
       THEN /\ sea_df' = TheOne(sea_cache)
            /\ UNCHANGED <<sea_cache, sea_info, rng>>
       ELSE \E f \in SeaFiles(now), emptyRaises \in BOOLEAN : RunSea(f, emptyRaises)
    /\ pc' = "emission"
    /\ UNCHANGED <<runs, now, temp_cache, temp_info, temp_df, emission_df, draws,
                   year_min, year_max, slider, year_range, filtered_temp,
                   filtered_sea, filtered_emission, csv, first_tables, call>>

\* lines 77-86: the emission table is built by every run of the script
BuildEmission ==
    /\ pc = "emission"
    /\ LET res == EmissionBuild(rng)
       IN /\ emission_df' = res.table
          /\ draws' = [noiseA |-> res.noiseA, noiseB |-> res.noiseB]
          /\ rng' = res.rng
          /\ first_tables' =
                IF first_tables = {}
                THEN {[temp |-> temp_df, sea |-> sea_df, emission |-> res.table]}
                ELSE first_tables
    /\ pc' = "slider"
    /\ UNCHANGED <<runs, now, temp_cache, sea_cache, temp_info, sea_info, temp_df,
                   sea_df, year_min, year_max, slider, year_range, filtered_temp,
                   filtered_sea, filtered_emission, csv, call>>

\* lines 94-102: int(min(...)), int(max(...)) and the slider; int(NaN)
\* raises, and so does a default outside min_value..max_value
Slider ==
    /\ pc = "slider"
    /\ LET lo == PyMin(DateMin(temp_df), DateMin(sea_df), DateMin(emission_df))
           hi == PyMax(DateMax(temp_df), DateMax(sea_df), DateMax(emission_df))
       IN IF lo = {} \/ hi = {}
          THEN /\ pc' = "crashed"
               /\ UNCHANGED <<year_min, year_max, slider, year_range>>
          ELSE /\ year_min' = TheOne(lo)
               /\ year_max' = TheOne(hi)
               /\ IF TheOne(lo) <= DefaultLo /\ DefaultHi <= TheOne(hi)
                  THEN /\ year_range' = SliderValue(slider, TheOne(lo), TheOne(hi))
                       /\ slider' = {[min |-> TheOne(lo), max |-> TheOne(hi),
                                      value |-> SliderValue(slider, TheOne(lo), TheOne(hi))]}
                       /\ pc' = "filter_temp"
                  ELSE /\ pc' = "crashed"
                       /\ UNCHANGED <<slider, year_range>>
    /\ UNCHANGED <<runs, now, rng, temp_cache, sea_cache, temp_info, sea_info,
                   temp_df, sea_df, emission_df, draws, filtered_temp,
                   filtered_sea, filtered_emission, csv, first_tables, call>>

\* variant: the temperature table is filtered in place
FilterTempInPlace ==
    /\ pc = "filter_temp"
    /\ filtered_temp' = RangeFilter(temp_df, year_range)
    /\ temp_df' = RangeFilter(temp_df, year_range)
    /\ pc' = "filter_sea"
    /\ UNCHANGED <<runs, now, rng, temp_cache, sea_cache, temp_info, sea_info,
                   sea_df, emission_df, draws, year_min, year_max, slider,
                   year_range, filtered_sea, filtered_emission, csv, first_tables, call>>

\* line 110
FilterTemp ==
    /\ pc = "filter_temp"
    /\ filtered_temp' = RangeFilter(temp_df, year_range)
    /\ pc' = "filter_sea"
    /\ UNCHANGED <<runs, now, rng, temp_cache, sea_cache, temp_info, sea_info,
                   temp_df, sea_df, emission_df, draws, year_min, year_max, slider,
                   year_range, filtered_sea, filtered_emission, csv, first_tables, call>>

\* line 116
FilterSea ==
    /\ pc = "filter_sea"
    /\ filtered_sea' = RangeFilter(sea_df, year_range)
    /\ pc' = "filter_emission"
    /\ UNCHANGED <<runs, now, rng, temp_cache, sea_cache, temp_info, sea_info,
                   temp_df, sea_df, emission_df, draws, year_min, year_max, slider,
                   year_range, filtered_temp, filtered_emission, csv, first_tables, call>>

\* lines 134-144: filter the emission table and hand its CSV to the download button
FilterEmission ==
    /\ pc = "filter_emission"
    /\ filtered_emission' = RangeFilter(emission_df, year_range)
    /\ csv' = ToCsv(RangeFilter(emission_df, year_range))
    /\ pc' = "done"
    /\ UNCHANGED <<runs, now, rng, temp_cache, sea_cache, temp_info, sea_info,
                   temp_df, sea_df, emission_df, draws, year_min, year_max, slider,
                   year_range, filtered_temp, filtered_sea, first_tables, call>>

\* a user interaction: the slider is moved (or left where it is, as when
\* the download button is clicked) and Streamlit re-runs the script from
\* the top in a fresh namespace
Interact ==
    /\ pc = "done"
    /\ runs < MaxRuns
    /\ \E lo \in SliderStops(year_min, year_max), hi \in SliderStops(year_min, year_max) :
          /\ year_min <= lo /\ lo <= hi /\ hi <= year_max
          /\ slider' = {[min |-> year_min, max |-> year_max, value |-> <<lo, hi>>]}
    /\ runs' = runs + 1
    /\ pc' = "load_temp"
    /\ temp_df' = <<>> /\ sea_df' = <<>> /\ emission_df' = <<>>
    /\ draws' = [noiseA |-> <<>>, noiseB |-> <<>>]
    /\ year_min' = 0 /\ year_max' = 0
    /\ year_range' = Unset
    /\ filtered_temp' = <<>> /\ filtered_sea' = <<>> /\ filtered_emission' = <<>>
    /\ csv' = NoCsv
    /\ UNCHANGED <<now, rng, temp_cache, sea_cache, temp_info, sea_info,
                   first_tables, call>>

Next ==
    \/ LoadTemp
    \/ LoadSea
    \/ BuildEmission
    \/ Slider
    \/ FilterTemp
    \/ FilterSea
    \/ FilterEmission
    \/ Interact

Spec == Init /\ [][Next]_vars

----------------------------------------------------------------------------
(* The loaders on their own: one first call of one loader on a given      *)
(* response                                                                *)

Calls(n) ==
    {[loader |-> "temp", file |-> f, emptyRaises |-> FALSE] : f \in TempFiles(n)}
    \cup {[loader |-> "sea", file |-> f, emptyRaises |-> FALSE] : f \in SeaFilesWide(n)}
    \cup {[loader |-> "sea", file |-> f, emptyRaises |-> TRUE] :
             f \in {g \in SeaFilesWide(n) : g.rows = <<>>}}

InitLoad ==
    /\ pc = "call"
    /\ runs = 1
    /\ now \in Nows
    /\ rng \in 0..(RngPeriod - 1)
    /\ temp_cache = {} /\ sea_cache = {}
    /\ temp_info = NoInfo /\ sea_info = NoInfo
    /\ slider = {}
    /\ first_tables = {}
    /\ call \in Calls(now)
    /\ Fresh

CallTemp ==
    /\ pc = "call"
    /\ call.loader = "temp"
    /\ RunTemp(call.file)
    /\ pc' = "returned"
    /\ UNCHANGED <<runs, now, sea_cache, sea_info, sea_df, emission_df, draws,
                   year_min, year_max, slider, year_range, filtered_temp,
                   filtered_sea, filtered_emission, csv, first_tables, call>>

CallSea ==
    /\ pc = "call"
    /\ call.loader = "sea"
    /\ RunSea(call.file, call.emptyRaises)
    /\ pc' = "returned"
    /\ UNCHANGED <<runs, now, temp_cache, temp_info, temp_df, emission_df, draws,
                   year_min, year_max, slider, year_range, filtered_temp,
                   filtered_sea, filtered_emission, csv, first_tables, call>>

NextLoad == CallTemp \/ CallSea

SpecLoad == InitLoad /\ [][NextLoad]_vars

----------------------------------------------------------------------------
(* Properties *)

\* C1: once the three filters of a run have executed, each filtered table
\* holds exactly the rows of its table whose date lies in [lo, hi], each
\* once and in the original order (the k-th qualifying row of the table is
\* the k-th row of the result); the filter steps never fail, an empty
\* result included.
C1_RangeFilterExact ==
    LET In(T, i) == year_range[1] <= T[i].date /\ T[i].date <= year_range[2]
        Exact(F, T) ==
            /\ Len(F) = Cardinality({i \in 1..Len(T) : In(T, i)})
            /\ \A i \in 1..Len(T) :
                  In(T, i) => F[Cardinality({j \in 1..i : In(T, j)})] = T[i]
    IN pc = "done" => /\ Exact(filtered_temp, temp_df)
                      /\ Exact(filtered_sea, sea_df)
                      /\ Exact(filtered_emission, emission_df)

\* C1 witness: a finished run whose sea-level result is empty although the
\* table is not, and whose temperature result keeps some rows and drops others
C1_Witness ==
    /\ pc = "done"
    /\ sea_df # <<>> /\ filtered_sea = <<>>
    /\ 0 < Len(filtered_temp) /\ Len(filtered_temp) < Len(temp_df)
    /\ Len(filtered_emission) < Len(emission_df)

\* C2: the body of each loader runs at most once in the process, and in
\* every later run the loader returns the table its first call returned,
\* whatever the remote resource would answer now.
C2_LoaderMemoized ==
    /\ temp_info.runs <= 1
    /\ sea_info.runs <= 1
    /\ first_tables # {} =>
          /\ pc # "load_temp" => temp_df = TheOne(first_tables).temp
          /\ pc \notin {"load_temp", "load_sea"} => sea_df = TheOne(first_tables).sea

\* C2 witness: a second run has loaded both tables, the temperature one
\* being the fallback of a failed first fetch
C2_Witness ==
    /\ runs = 2 /\ pc = "done"
    /\ temp_info.path = "fallback" /\ temp_info.runs = 1
    /\ sea_info.path = "fetched" /\ sea_info.runs = 1

\* C3 as amended: a loader that fell back returns one row per year of
\* 1990..2022 (33 rows), whatever the current year, and its body emitted
\* exactly one warning.
C3_FallbackSpan ==
    /\ (temp_info.path = "fallback" /\ pc # "load_temp") =>
          /\ Len(temp_df) = 33
          /\ \A i \in 1..Len(temp_df) : temp_df[i].date = 1989 + i
          /\ temp_info.warnings = 1
    /\ (sea_info.path = "fallback" /\ pc \notin {"load_temp", "load_sea"}) =>
          /\ Len(sea_df) = 33
          /\ \A i \in 1..Len(sea_df) : sea_df[i].date = 1989 + i
          /\ sea_info.warnings = 1

\* C3 witness: both loaders fell back in a process running after 2022
C3_Witness ==
    /\ pc = "emission"
    /\ temp_info.path = "fallback" /\ sea_info.path = "fallback"
    /\ now > 2022
    /\ Len(temp_df) = 33 /\ Len(sea_df) = 33

\* C3 as stated: the fallback table has one row per year from 1990 through
\* the current calendar year, and exactly one warning was emitted.
C3_FallbackThroughPresent ==
    /\ (temp_info.path = "fallback" /\ pc # "load_temp") =>
          /\ Len(temp_df) = now - 1990 + 1
          /\ \A i \in 1..Len(temp_df) : temp_df[i].date = 1989 + i
          /\ temp_info.warnings = 1
    /\ (sea_info.path = "fallback" /\ pc \notin {"load_temp", "load_sea"}) =>
          /\ Len(sea_df) = now - 1990 + 1
          /\ \A i \in 1..Len(sea_df) : sea_df[i].date = 1989 + i
          /\ sea_info.warnings = 1

\* C4: every table a loader returned is well-formed: each row's value is
\* numeric (the dates are integers by construction of the tables).
C4_LoadedTablesWellFormed ==
    /\ pc # "load_temp" => \A i \in 1..Len(temp_df) : temp_df[i].value.num
    /\ pc \notin {"load_temp", "load_sea"} =>
          \A i \in 1..Len(sea_df) : sea_df[i].value.num

\* C5: in every run after the first, the temperature, sea-level and
\* emission tables equal the tables the first run built.
C5_TablesBuiltOnce ==
    (first_tables # {} /\ pc \in {"slider", "filter_temp", "filter_sea",
                                  "filter_emission", "done"}) =>
        /\ temp_df = TheOne(first_tables).temp
        /\ sea_df = TheOne(first_tables).sea
        /\ emission_df = TheOne(first_tables).emission

\* C6 as amended: a successful load_sea_level call returns exactly one row
\* per distinct calendar year of the input that is not later than the
\* current year, dates ascending, and each row's value is the arithmetic
\* mean of the input values whose timestamp falls in that year
\* (value * count = sum, in fixed point).
C6_SeaYearlyMean ==
    (pc = "returned" /\ call.loader = "sea" /\ sea_info.path = "fetched") =>
        LET rows == call.file.rows
            yr(i) == rows[i].Time.n \div 12
            years == {y \in {yr(i) : i \in 1..Len(rows)} : y <= now}
            cnt(y) == Cardinality({i \in 1..Len(rows) : yr(i) = y})
            sum(y) == SumSeq([i \in 1..Len(rows) |->
                                IF yr(i) = y THEN rows[i].GMSL.n ELSE 0])
        IN /\ Len(sea_df) = Cardinality(years)
           /\ \A j \in 1..Len(sea_df) :
                 /\ sea_df[j].date \in years
                 /\ sea_df[j].value.num
                 /\ sea_df[j].value.n * cnt(sea_df[j].date)
                       = sum(sea_df[j].date) * Unit
           /\ \A j \in 1..Len(sea_df), k \in 1..Len(sea_df) :
                 j < k => sea_df[j].date < sea_df[k].date

\* C6 witness: the input (2000-01, 5), (2000-06, 7), (2001-01, 9) has been
\* loaded as (2000, 6.0), (2001, 9.0)
C6_Witness ==
    /\ pc = "returned" /\ call.loader = "sea" /\ sea_info.path = "fetched"
    /\ call.file.rows = <<[Time |-> Num(2000 * 12), GMSL |-> Num(5)],
                          [Time |-> Num(2000 * 12 + 5), GMSL |-> Num(7)],
                          [Time |-> Num(2001 * 12), GMSL |-> Num(9)]>>
    /\ sea_df = <<[date |-> 2000, value |-> Num(6 * Unit)],
                  [date |-> 2001, value |-> Num(9 * Unit)]>>

\* C6 as stated: a successful load_sea_level call returns exactly one row
\* per distinct calendar year present in the input, dates ascending, each
\* value the mean of that year's input values.
C6_SeaOneRowPerInputYear ==
    (pc = "returned" /\ call.loader = "sea" /\ sea_info.path = "fetched") =>
        LET rows == call.file.rows
            yr(i) == rows[i].Time.n \div 12
            years == {yr(i) : i \in 1..Len(rows)}
            cnt(y) == Cardinality({i \in 1..Len(rows) : yr(i) = y})
            sum(y) == SumSeq([i \in 1..Len(rows) |->
                                IF yr(i) = y THEN rows[i].GMSL.n ELSE 0])
        IN /\ Len(sea_df) = Cardinality(years)
           /\ \A j \in 1..Len(sea_df) :
                 /\ sea_df[j].date \in years
                 /\ sea_df[j].value.n * cnt(sea_df[j].date)
                       = sum(sea_df[j].date) * Unit
           /\ \A j \in 1..Len(sea_df), k \in 1..Len(sea_df) :
                 j < k => sea_df[j].date < sea_df[k].date

\* C7: on the success path of either loader the returned table has a row
\* for every fetched year that is not later than the current year and no
\* row of a later year; the temperature table keeps exactly the fetched
\* rows of such years, the sea-level table one row for each such year.
C7_FutureYearsTruncated ==
    /\ (pc = "returned" /\ call.loader = "temp" /\ temp_info.path = "fetched") =>
          LET rows == call.file.rows
          IN /\ \A j \in 1..Len(temp_df) : temp_df[j].date <= now
             /\ Len(temp_df) = Cardinality({i \in 1..Len(rows) : rows[i].Year.n <= now})
             /\ \A i \in 1..Len(rows) :
                   rows[i].Year.n <= now =>
                      \E j \in 1..Len(temp_df) : temp_df[j].date = rows[i].Year.n
    /\ (pc = "returned" /\ call.loader = "sea" /\ sea_info.path = "fetched") =>
          LET rows == call.file.rows
          IN /\ \A j \in 1..Len(sea_df) : sea_df[j].date <= now
             /\ \A i \in 1..Len(rows) :
                   rows[i].Time.n \div 12 <= now =>
                      \E j \in 1..Len(sea_df) : sea_df[j].date = rows[i].Time.n \div 12

\* C7 witness: a temperature file with a row of the current year and a row
\* of the next year has been loaded, and only the first row is returned
C7_Witness ==
    /\ pc = "returned" /\ call.loader = "temp" /\ temp_info.path = "fetched"
    /\ Len(call.file.rows) = 2
    /\ call.file.rows[1].Year.n = now
    /\ call.file.rows[2].Year.n = now + 1
    /\ Len(temp_df) = 1 /\ temp_df[1].date = now

\* C8: the emission table has one row for each year 1990..2022 (33 rows),
\* and in every row net = gross - noiseA and co2 = net - noiseB for the
\* draws of that build.
C8_EmissionDerivation ==
    pc \in {"slider", "filter_temp", "filter_sea", "filter_emission", "done"} =>
        /\ Len(emission_df) = 33
        /\ \A i \in 1..Len(emission_df) :
              /\ emission_df[i].date = 1989 + i
              /\ emission_df[i].net = emission_df[i].gross - draws.noiseA[i]
              /\ emission_df[i].co2 = emission_df[i].net - draws.noiseB[i]

\* C8 witness: an emission table with a row where net exceeds gross and a
\* row where co2 exceeds net (the orderings are not guaranteed)
C8_Witness ==
    /\ pc = "slider"
    /\ Len(emission_df) = 33
    /\ \E i \in 1..Len(emission_df) : emission_df[i].net > emission_df[i].gross
    /\ \E i \in 1..Len(emission_df) : emission_df[i].co2 > emission_df[i].net
    /\ \E i \in 1..Len(emission_df) : emission_df[i].net < emission_df[i].gross

\* C9: a filter step changes neither the three tables nor the year range,
\* and leaves the results of the filters that ran before it as they were.
C9_FilterFrame ==
    [][(pc \in {"filter_temp", "filter_sea", "filter_emission"}) =>
          (/\ temp_df' = temp_df
           /\ sea_df' = sea_df
           /\ emission_df' = emission_df
           /\ year_range' = year_range
           /\ (pc \in {"filter_sea", "filter_emission"} => filtered_temp' = filtered_temp)
           /\ (pc = "filter_emission" => filtered_sea' = filtered_sea))]_vars

\* C9 witness: all three filters have run in one interaction and each of
\* them dropped rows of its table
C9_Witness ==
    /\ pc = "done" /\ runs = 2
    /\ year_range # Default
    /\ Len(filtered_temp) < Len(temp_df)
    /\ Len(filtered_sea) < Len(sea_df)
    /\ Len(filtered_emission) < Len(emission_df)

\* C10: every year range handed to the filters satisfies
\* year_min <= lo <= hi <= year_max, year_min and year_max are the least
\* and greatest date of the three tables, year_min <= 1990 and
\* year_max >= 2022; the script never stops at the slider because of the
\* default: it stops there only when the temperature table is empty.
C10_YearRangeBounds ==
    /\ pc \in {"filter_temp", "filter_sea", "filter_emission", "done"} =>
          LET dates == {temp_df[i].date : i \in 1..Len(temp_df)}
                       \cup {sea_df[i].date : i \in 1..Len(sea_df)}
                       \cup {emission_df[i].date : i \in 1..Len(emission_df)}
          IN /\ year_min <= year_range[1]
             /\ year_range[1] <= year_range[2]
             /\ year_range[2] <= year_max
             /\ year_min \in dates /\ \A d \in dates : year_min <= d
             /\ year_max \in dates /\ \A d \in dates : d <= year_max
             /\ year_min <= 1990
             /\ year_max >= 2022
    /\ pc = "crashed" => temp_df = <<>>

\* C10 witness: a second interaction with a range the user chose, the
\* fetched tables widening the bounds beyond 1990..2022
C10_Witness ==
    /\ pc = "filter_temp" /\ runs = 2
    /\ temp_info.path = "fetched" /\ sea_info.path = "fetched"
    /\ year_min < 1990 /\ year_max > 2022
    /\ year_range = <<year_min, year_max>>

====
